---------------------------- MODULE Spec2Model ----------------------------
(***************************************************************************)
(* Model of bluesky/commandline/zmq_proxy.py: the command-line entry point *)
(* main() that reconciles the legacy and the current addressing scheme,    *)
(* constructs the 0MQ Proxy, optionally starts start_dispatcher() in a     *)
(* daemon thread, and runs the Proxy's relay loop until interrupted.       *)
(***************************************************************************)
EXTENDS Integers, Sequences, FiniteSets, TLC

(***************************************************************************)
(* Python values.  A value is None, an int or a str; a str is a sequence   *)
(* of one-character strings so that int(str) can be computed.              *)
(***************************************************************************)
None == [t |-> "None", n |-> 0, s |-> <<>>]

IntV(n) == [t |-> "int", n |-> n, s |-> <<>>]

StrV(s) == [t |-> "str", n |-> 0, s |-> s]

Digits == {"0", "1", "2", "3", "4", "5", "6", "7", "8", "9"}

DigitVal(c) ==
    CASE c = "0" -> 0 [] c = "1" -> 1 [] c = "2" -> 2 [] c = "3" -> 3
      [] c = "4" -> 4 [] c = "5" -> 5 [] c = "6" -> 6 [] c = "7" -> 7
      [] c = "8" -> 8 [] c = "9" -> 9

\* str.strip() as int() applies it: leading and trailing whitespace removed.
RECURSIVE LStrip(_)
LStrip(s) == IF s # <<>> /\ Head(s) = " " THEN LStrip(Tail(s)) ELSE s

RECURSIVE RStrip(_)
RStrip(s) ==
    IF s # <<>> /\ s[Len(s)] = " " THEN RStrip(SubSeq(s, 1, Len(s) - 1)) ELSE s

Strip(s) == RStrip(LStrip(s))

\* The digit part of a decimal literal: digits, single underscores between them.
WellFormedDigits(d) ==
    /\ d # <<>>
    /\ \A i \in 1..Len(d) : d[i] \in Digits \cup {"_"}
    /\ d[1] # "_"
    /\ d[Len(d)] # "_"
    /\ \A i \in 1..(Len(d) - 1) : ~(d[i] = "_" /\ d[i + 1] = "_")

RECURSIVE DecimalValue(_, _)
DecimalValue(d, acc) ==
    IF d = <<>> THEN acc
    ELSE IF Head(d) = "_" THEN DecimalValue(Tail(d), acc)
    ELSE DecimalValue(Tail(d), 10 * acc + DigitVal(Head(d)))

\* int(x): the identity on an int, TypeError on None, and on a str the value
\* of the decimal literal it spells or ValueError.
PyInt(x) ==
    IF x.t = "int" THEN [ok |-> TRUE, n |-> x.n]
    ELSE IF x.t = "None" THEN [ok |-> FALSE, n |-> 0]
    ELSE
        LET body == Strip(x.s)
            signed == body # <<>> /\ Head(body) \in {"+", "-"}
            d == IF signed THEN Tail(body) ELSE body
        IN  IF WellFormedDigits(d)
            THEN [ok |-> TRUE,
                  n  |-> IF signed /\ Head(body) = "-"
                         THEN 0 - DecimalValue(d, 0) ELSE DecimalValue(d, 0)]
            ELSE [ok |-> FALSE, n |-> 0]

\* try: a = int(a)  except (ValueError, TypeError): pass
Coerce(x) == IF PyInt(x).ok THEN IntV(PyInt(x).n) ELSE x


(***************************************************************************)
(* Bounds and the inputs drawn in the initial state.                       *)
(***************************************************************************)
MaxVerbose == 3

MaxDocs == 2

S5577 == <<"5", "5", "7", "7">>

SZero == <<"0">>

SPadded == <<" ", "7", "0", " ">>

SGrouped == <<"+", "5", "_", "0">>

SLocalhost == <<"l", "o", "c", "a", "l", "h", "o", "s", "t", ":", "6", "0", "0", "0">>

STempLog == <<"t", "e", "m", "p", ".", "l", "o", "g">>

\* type=int positionals with nargs="?": absent or an int.
InPortInputs == {None, IntV(5577), IntV(0)}

OutPortInputs == {None, IntV(5578)}

\* --in-address / --out-address: absent or the string given.
AddressInputs == {None, StrV(S5577), StrV(SZero), StrV(SPadded), StrV(SGrouped), StrV(SLocalhost)}

\* action="count" with no default: absent or the number of -v flags.
VerboseInputs == {None} \cup {IntV(k) : k \in 1..MaxVerbose}

LogfileInputs == {None, StrV(STempLog)}

\* The document kinds a producer emits.
DocNames == {"start", "event", "stop"}

\* Ports the operating system hands out for an auto-assigned endpoint.
EphemeralPorts == {IntV(49152), IntV(49153)}

VARIABLES
    entry,            \* which function was called: "main" or "start_dispatcher"
    in_port, out_port, in_address_opt, out_address_opt, verbose, logfile_opt,
    in_address, out_address,
    pc,               \* main's position
    err,              \* the exception main raised, "none" if none
    warned,           \* warnings.warn calls, in order
    stdout,           \* the lines printed, in order
    proxy,            \* the Proxy object
    logLevel, logFile,\* the process-wide logging configuration
    tpc,              \* start_dispatcher's position
    terr,             \* the exception start_dispatcher raised
    t_out_address, t_logfile, \* start_dispatcher's arguments
    dispatcher,       \* the RemoteDispatcher object
    sent,             \* documents the producer published, in order
    inq,              \* frames waiting at the producer-facing endpoint
    relayed,          \* frames the relay loop forwarded, in order
    missed,           \* how many frames were forwarded before the dispatcher connected
    outq,             \* frames waiting in the dispatcher's subscription
    handled,          \* (name, doc) pairs handed to log_writer, in order
    log               \* log records emitted, in order

inputs == <<entry, in_port, out_port, in_address_opt, out_address_opt, verbose, logfile_opt>>

mainVars == <<in_address, out_address, pc, err, warned, stdout, proxy, logLevel, logFile>>

threadVars == <<tpc, terr, t_out_address, t_logfile, dispatcher>>

streamVars == <<sent, inq, relayed, missed, outq, handled, log>>

vars == <<inputs, mainVars, threadVars, streamVars>>

NoProxy == [constructed |-> FALSE, in_port |-> None, out_port |-> None]

NoDispatcher == [constructed |-> FALSE, address |-> None, subs |-> <<>>]

Init ==
    /\ entry \in {"main", "start_dispatcher"}
    /\ IF entry = "main"
       THEN /\ in_port \in InPortInputs
            /\ out_port \in OutPortInputs
            /\ in_address_opt \in AddressInputs
            /\ out_address_opt \in AddressInputs
            /\ verbose \in VerboseInputs
            /\ logfile_opt \in LogfileInputs
            /\ pc = "parsed"
            /\ tpc = "none"
            /\ t_out_address = None
            /\ t_logfile = None
       ELSE /\ in_port = None
            /\ out_port = None
            /\ in_address_opt = None
            /\ out_address_opt = None
            /\ verbose = None
            /\ logfile_opt = None
            /\ pc = "absent"
            /\ tpc = "called"
            /\ t_out_address \in {IntV(5578), StrV(SLocalhost)}
            /\ t_logfile \in LogfileInputs
    /\ in_address = None
    /\ out_address = None
    /\ err = "none"
    /\ warned = <<>>
    /\ stdout = <<>>
    /\ proxy = NoProxy
    /\ logLevel = "WARNING"
    /\ logFile = None
    /\ terr = "none"
    /\ dispatcher = NoDispatcher
    /\ sent = <<>>
    /\ inq = <<>>
    /\ relayed = <<>>
    /\ missed = 0
    /\ outq = <<>>
    /\ handled = <<>>
    /\ log = <<>>


(***************************************************************************)
(* main(): address reconciliation (lines 63-94).                           *)
(***************************************************************************)
\* if args.in_port is not None or args.out_port is not None:
LegacyUsed == in_port # None \/ out_port # None

\* if args.in_port is None or args.out_port is None:
LegacyIncomplete == in_port = None \/ out_port = None

\* The check with its second operand lost.
MixedSchemesInOnly == in_address_opt # None

\* if args.in_address_opt is not None or args.out_address_opt is not None:
MixedSchemes == in_address_opt # None \/ out_address_opt # None

\* The two legacy checks in the other order.
ResolveOutcomeMixedFirst ==
    IF LegacyUsed
    THEN IF MixedSchemes THEN "mixed"
         ELSE IF LegacyIncomplete THEN "incomplete"
         ELSE "legacy"
    ELSE "current"

\* Which branch of the reconciliation the arguments take.
ResolveOutcome ==
    IF LegacyUsed
    THEN IF LegacyIncomplete THEN "incomplete"
         ELSE IF MixedSchemes THEN "mixed"
         ELSE "legacy"
    ELSE "current"

\* The legacy pair assigned the wrong way round.
LegacyPairSwapped == <<out_port, in_port>>

\* in_address = args.in_port; out_address = args.out_port
LegacyPair == <<in_port, out_port>>

\* in_address = args.in_address_opt; out_address = args.out_address_opt
CurrentPair == <<in_address_opt, out_address_opt>>

ResolveAddresses ==
    /\ pc = "parsed"
    /\ IF ResolveOutcome = "incomplete"
       THEN /\ pc' = "raised"
            /\ err' = "ValueError: incomplete legacy pair"
            /\ UNCHANGED <<in_address, out_address, warned>>
       ELSE IF ResolveOutcome = "mixed"
       THEN /\ pc' = "raised"
            /\ err' = "ValueError: mixed schemes"
            /\ UNCHANGED <<in_address, out_address, warned>>
       ELSE IF ResolveOutcome = "legacy"
       THEN /\ warned' = Append(warned, "FutureWarning: positional ports deprecated")
            /\ in_address' = LegacyPair[1]
            /\ out_address' = LegacyPair[2]
            /\ pc' = "resolved"
            /\ UNCHANGED err
       ELSE /\ in_address' = CurrentPair[1]
            /\ out_address' = CurrentPair[2]
            /\ pc' = "resolved"
            /\ UNCHANGED <<err, warned>>
    /\ UNCHANGED <<inputs, stdout, proxy, logLevel, logFile, threadVars, streamVars>>

(***************************************************************************)
(* main(): coercion of the resolved pair (lines 96-104).                   *)
(***************************************************************************)
\* The second try block converting the first variable: out_address = int(in_address).
CoercedPairCopyPaste(a, b) == <<Coerce(a), IF PyInt(a).ok THEN IntV(PyInt(a).n) ELSE b>>

CoercedPair(a, b) == <<Coerce(a), Coerce(b)>>

CoerceAddresses ==
    /\ pc = "resolved"
    /\ stdout' = Append(stdout, "Connecting...")
    /\ in_address' = CoercedPair(in_address, out_address)[1]
    /\ out_address' = CoercedPair(in_address, out_address)[2]
    /\ pc' = "coerced"
    /\ UNCHANGED <<inputs, err, warned, proxy, logLevel, logFile, threadVars, streamVars>>

(***************************************************************************)
(* Proxy(in_address, out_address): binds both endpoints; an absent address *)
(* or port 0 is bound to a port the operating system assigns, and the      *)
(* bound addresses are readable as proxy.in_port and proxy.out_port.       *)
(***************************************************************************)
AutoAssign(a) == a = None \/ (a.t = "int" /\ a.n = 0)

ProxyBind(a, eph) == IF AutoAssign(a) THEN eph ELSE a

ConstructProxy ==
    /\ pc = "coerced"
    /\ \/ \E ein \in EphemeralPorts, eout \in EphemeralPorts :
            /\ ein # eout
            /\ ProxyBind(in_address, ein) # ProxyBind(out_address, eout)
            /\ proxy' = [constructed |-> TRUE,
                         in_port |-> ProxyBind(in_address, ein),
                         out_port |-> ProxyBind(out_address, eout)]
            /\ stdout' = Append(stdout, "Receiving on address ...; publishing to address ...")
            /\ pc' = "constructed"
            /\ UNCHANGED err
       \/ /\ pc' = "raised"
          /\ err' = "BindError"
          /\ UNCHANGED <<proxy, stdout>>
    /\ UNCHANGED <<inputs, in_address, out_address, warned, logLevel, logFile,
                   threadVars, streamVars>>

(***************************************************************************)
(* main(): the verbose branch (lines 108-118) and the relay loop           *)
(* (lines 120-124).                                                        *)
(***************************************************************************)
\* The branch taken whatever the count.
VerboseAlways == TRUE

\* if args.verbose:
VerboseEnabled == verbose.t = "int" /\ verbose.n # 0

\* The threshold off by one.
LevelOffByOne == IF verbose.n < 2 THEN "INFO" ELSE "DEBUG"

\* level = "INFO" if args.verbose <= 2 else "DEBUG"
Level == IF verbose.n <= 2 THEN "INFO" ELSE "DEBUG"

\* if args.logfile: config_bluesky_logging(level=level, file=args.logfile)
LogfileGiven == logfile_opt.t = "str" /\ logfile_opt.s # <<>>

\* The thread given the requested address instead of the bound one.
ThreadArgsRequested == out_address

\* The thread given the producer-facing address.
ThreadArgsInPort == proxy.in_port

\* threading.Thread(target=start_dispatcher, args=(proxy.out_port,), daemon=True)
ThreadArgs == proxy.out_port

VerboseBranch ==
    /\ pc = "constructed"
    /\ IF VerboseEnabled
       THEN /\ logLevel' = Level
            /\ logFile' = IF LogfileGiven THEN logfile_opt ELSE None
            /\ tpc' = "called"
            /\ t_out_address' = ThreadArgs
            /\ t_logfile' = None
       ELSE UNCHANGED <<logLevel, logFile, tpc, t_out_address, t_logfile>>
    /\ pc' = "ready"
    /\ UNCHANGED <<inputs, in_address, out_address, err, warned, stdout, proxy,
                   terr, dispatcher, streamVars>>

\* print("Use Ctrl+C to exit."); proxy.start()
EnterRelay ==
    /\ pc = "ready"
    /\ stdout' = Append(stdout, "Use Ctrl+C to exit.")
    /\ pc' = "relay"
    /\ UNCHANGED <<inputs, in_address, out_address, err, warned, proxy, logLevel,
                   logFile, threadVars, streamVars>>

\* The interrupt left uncaught.
InterruptPropagates ==
    /\ pc = "relay"
    /\ pc' = "raised"
    /\ err' = "KeyboardInterrupt"
    /\ UNCHANGED <<inputs, in_address, out_address, warned, stdout, proxy, logLevel,
                   logFile, threadVars, streamVars>>

\* except KeyboardInterrupt: print("Interrupted. Exiting...")
InterruptInRelay ==
    /\ pc = "relay"
    /\ stdout' = Append(stdout, "Interrupted. Exiting...")
    /\ pc' = "returned"
    /\ UNCHANGED <<inputs, in_address, out_address, err, warned, proxy, logLevel,
                   logFile, threadVars, streamVars>>

\* A KeyboardInterrupt outside the try block propagates out of main().
InterruptElsewhere ==
    /\ pc \in {"parsed", "resolved", "coerced", "constructed", "ready"}
    /\ pc' = "raised"
    /\ err' = "KeyboardInterrupt"
    /\ UNCHANGED <<inputs, in_address, out_address, warned, stdout, proxy, logLevel,
                   logFile, threadVars, streamVars>>


(***************************************************************************)
(* start_dispatcher(out_address, logfile=None) (lines 11-39).  main() runs *)
(* it in a daemon thread, which dies with the process.                     *)
(***************************************************************************)
Alive == entry = "start_dispatcher" \/ pc \notin {"returned", "raised"}

\* dispatcher = RemoteDispatcher(out_address): connects a subscriber socket.
DispatcherConstruct ==
    /\ Alive
    /\ tpc = "called"
    /\ dispatcher' = [constructed |-> TRUE, address |-> t_out_address, subs |-> <<>>]
    /\ tpc' = "constructed"
    /\ UNCHANGED <<inputs, mainVars, terr, t_out_address, t_logfile, streamVars>>

\* if logfile is not None: raise ValueError(...)
CheckLogfile ==
    /\ Alive
    /\ tpc = "constructed"
    /\ IF t_logfile # None
       THEN /\ tpc' = "raised"
            /\ terr' = "ValueError: logfile deprecated"
       ELSE /\ tpc' = "checked"
            /\ UNCHANGED terr
    /\ UNCHANGED <<inputs, mainVars, t_out_address, t_logfile, dispatcher, streamVars>>

\* dispatcher.subscribe(log_writer)
Subscribe ==
    /\ Alive
    /\ tpc = "checked"
    /\ dispatcher' = [dispatcher EXCEPT !.subs = Append(@, "log_writer")]
    /\ tpc' = "subscribed"
    /\ UNCHANGED <<inputs, mainVars, terr, t_out_address, t_logfile, streamVars>>

\* dispatcher.start(): the receive loop begins.
DispatcherStart ==
    /\ Alive
    /\ tpc = "subscribed"
    /\ tpc' = "running"
    /\ UNCHANGED <<inputs, mainVars, terr, t_out_address, t_logfile, dispatcher, streamVars>>

(***************************************************************************)
(* log_writer(name, doc) (lines 26-36) and the logging layer under it.     *)
(***************************************************************************)
\* logger.info for start and stop, logger.debug for everything else.
LogWriterLevel(name) == IF name \in {"start", "stop"} THEN "INFO" ELSE "DEBUG"

LevelNo(l) == CASE l = "DEBUG" -> 10 [] l = "INFO" -> 20 [] l = "WARNING" -> 30

\* A record is emitted when its level is at least the configured level.
IsEnabledFor(l) == LevelNo(l) >= LevelNo(logLevel)

log_writer(doc, records) ==
    IF IsEnabledFor(LogWriterLevel(doc.name))
    THEN Append(records, [level |-> LogWriterLevel(doc.name), name |-> doc.name, doc |-> doc])
    ELSE records

(***************************************************************************)
(* The document stream: one producer, the Proxy's relay loop, and the      *)
(* RemoteDispatcher's receive loop.                                        *)
(***************************************************************************)
Encode(doc) == <<doc.name, doc.uid>>

Decode(frame) == [name |-> frame[1], uid |-> frame[2]]

\* The dispatcher's socket is subscribed to the consumer-facing endpoint.
Attached == dispatcher.constructed /\ dispatcher.address = proxy.out_port

Publish ==
    /\ Alive
    /\ proxy.constructed
    /\ Len(sent) < MaxDocs
    /\ \E name \in DocNames :
         LET doc == [name |-> name, uid |-> Len(sent) + 1]
         IN  /\ sent' = Append(sent, doc)
             /\ inq' = Append(inq, Encode(doc))
    /\ UNCHANGED <<inputs, mainVars, threadVars, relayed, missed, outq, handled, log>>

\* One turn of proxy.start(): a frame is forwarded to the subscribers there are.
Relay ==
    /\ pc = "relay"
    /\ inq # <<>>
    /\ inq' = Tail(inq)
    /\ relayed' = Append(relayed, Head(inq))
    /\ outq' = IF Attached THEN Append(outq, Head(inq)) ELSE outq
    /\ missed' = IF dispatcher.constructed THEN missed ELSE missed + 1
    /\ UNCHANGED <<inputs, mainVars, threadVars, sent, handled, log>>

RECURSIVE InvokeHandlers(_, _, _)
InvokeHandlers(subs, doc, st) ==
    IF subs = <<>> THEN st
    ELSE InvokeHandlers(Tail(subs), doc,
                        [handled |-> Append(st.handled, doc),
                         log |-> log_writer(doc, st.log)])

\* One turn of dispatcher.start(): receive, decode, call every handler in order.
Dispatch ==
    /\ Alive
    /\ tpc = "running"
    /\ outq # <<>>
    /\ LET st == InvokeHandlers(dispatcher.subs, Decode(Head(outq)),
                                [handled |-> handled, log |-> log])
       IN  /\ handled' = st.handled
           /\ log' = st.log
    /\ outq' = Tail(outq)
    /\ UNCHANGED <<inputs, mainVars, threadVars, sent, inq, relayed, missed>>

Next ==
    \/ ResolveAddresses
    \/ CoerceAddresses
    \/ ConstructProxy
    \/ VerboseBranch
    \/ EnterRelay
    \/ InterruptInRelay
    \/ InterruptElsewhere
    \/ DispatcherConstruct
    \/ CheckLogfile
    \/ Subscribe
    \/ DispatcherStart
    \/ Publish
    \/ Relay
    \/ Dispatch

Spec == Init /\ [][Next]_vars


(***************************************************************************)
(* Vocabulary of the properties.                                           *)
(***************************************************************************)
ConfigErrors ==
    {"ValueError: incomplete legacy pair", "ValueError: mixed schemes",
     "ValueError: logfile deprecated"}

\* main() ran its reconciliation (it was not interrupted before it).
ResolutionRan == entry = "main" /\ pc # "parsed" /\ err # "KeyboardInterrupt"

\* main() ran its coercion step, whose first effect is the "Connecting..." line.
CoercionRan == entry = "main" /\ stdout # <<>>

BothLegacy == in_port # None /\ out_port # None

OneLegacy == (in_port # None /\ out_port = None) \/ (in_port = None /\ out_port # None)

NoLegacy == in_port = None /\ out_port = None

AnyCurrent == in_address_opt # None \/ out_address_opt # None

(***************************************************************************)
(* C1: when both legacy values and at least one current value are given,   *)
(* the reconciliation raises the mixed-schemes error: no pair is resolved, *)
(* no Proxy is constructed and no dispatcher thread is started.            *)
(***************************************************************************)
C1_MixedSchemesRejected ==
    (ResolutionRan /\ BothLegacy /\ AnyCurrent) =>
        /\ pc = "raised"
        /\ err = "ValueError: mixed schemes"
        /\ in_address = None /\ out_address = None
        /\ ~proxy.constructed
        /\ tpc = "none" /\ ~dispatcher.constructed

C1_Witness ==
    /\ pc = "raised" /\ err = "ValueError: mixed schemes"
    /\ in_port = IntV(5577) /\ out_port = IntV(5578)
    /\ in_address_opt = None /\ out_address_opt = StrV(SLocalhost)

(***************************************************************************)
(* C2: when exactly one legacy value is given, whatever the current values *)
(* are, the reconciliation raises the incomplete-pair error (not the       *)
(* mixed-schemes error) and no Proxy is constructed.                       *)
(***************************************************************************)
C2_IncompleteLegacyRejected ==
    (ResolutionRan /\ OneLegacy) =>
        /\ pc = "raised"
        /\ err = "ValueError: incomplete legacy pair"
        /\ in_address = None /\ out_address = None
        /\ ~proxy.constructed
        /\ tpc = "none"

C2_Witness ==
    /\ pc = "raised" /\ err = "ValueError: incomplete legacy pair"
    /\ in_port = IntV(5577) /\ out_port = None
    /\ out_address_opt = StrV(SLocalhost)

(***************************************************************************)
(* C3: when both legacy values and no current value are given, the         *)
(* resolved pair is (in_port, out_port), the deprecation warning is        *)
(* emitted exactly once and no configuration error is raised; in every     *)
(* other case no deprecation warning is emitted.                           *)
(***************************************************************************)
C3_LegacyPairResolved ==
    /\ (ResolutionRan /\ BothLegacy /\ ~AnyCurrent) =>
          /\ in_address = in_port /\ out_address = out_port
          /\ Len(warned) = 1
          /\ err \notin ConfigErrors
          /\ pc = "raised" => err = "BindError"
    /\ ~(BothLegacy /\ ~AnyCurrent) => warned = <<>>

C3_Witness ==
    /\ pc = "relay"
    /\ in_port = IntV(5577) /\ out_port = IntV(5578)
    /\ in_address = IntV(5577) /\ out_address = IntV(5578)
    /\ proxy.in_port = IntV(5577) /\ proxy.out_port = IntV(5578)
    /\ Len(warned) = 1

(***************************************************************************)
(* C4 as stated: when neither legacy value is given, the pair handed to    *)
(* the Proxy is exactly (in_address_opt, out_address_opt), unchanged.      *)
(***************************************************************************)
C4_CurrentPairUnchanged ==
    (entry = "main" /\ NoLegacy /\ proxy.constructed) =>
        /\ in_address = in_address_opt
        /\ out_address = out_address_opt

\* What the coercion must make of one option value.
CoercedFrom(o, x) ==
    /\ o = None => x = None
    /\ (o # None /\ PyInt(o).ok) => x = IntV(PyInt(o).n)
    /\ (o # None /\ ~PyInt(o).ok) => x = o

(***************************************************************************)
(* C4 amended: when neither legacy value is given, the reconciliation      *)
(* yields the current pair, and the pair handed to the Proxy is that pair  *)
(* with every value that spells an integer replaced by the integer, every  *)
(* other string unchanged and an absent value left absent; no              *)
(* configuration error and no deprecation warning is produced.             *)
(***************************************************************************)
C4_CurrentPairCoerced ==
    (ResolutionRan /\ NoLegacy) =>
        /\ warned = <<>>
        /\ err \notin ConfigErrors
        /\ ~CoercionRan =>
              in_address = in_address_opt /\ out_address = out_address_opt
        /\ CoercionRan =>
              /\ CoercedFrom(in_address_opt, in_address)
              /\ CoercedFrom(out_address_opt, out_address)
        /\ in_address_opt = StrV(S5577) /\ CoercionRan => in_address = IntV(5577)
        /\ in_address_opt = StrV(SPadded) /\ CoercionRan => in_address = IntV(70)
        /\ in_address_opt = StrV(SGrouped) /\ CoercionRan => in_address = IntV(50)
        /\ in_address_opt = StrV(SLocalhost) => in_address = StrV(SLocalhost)
        /\ proxy.constructed =>
              /\ AutoAssign(in_address) <=> proxy.in_port \in EphemeralPorts
              /\ AutoAssign(out_address) <=> proxy.out_port \in EphemeralPorts

C4_Witness ==
    /\ pc = "relay"
    /\ in_address_opt = StrV(S5577) /\ in_address = IntV(5577)
    /\ out_address_opt = None /\ out_address = None
    /\ proxy.in_port = IntV(5577) /\ proxy.out_port \in EphemeralPorts

(***************************************************************************)
(* C5: whenever a configuration error has been raised, by main() or by     *)
(* start_dispatcher(), no Proxy and no RemoteDispatcher has been           *)
(* constructed.                                                            *)
(***************************************************************************)
C5_ConfigErrorsBeforeSockets ==
    (err \in ConfigErrors \/ terr \in ConfigErrors) =>
        ~proxy.constructed /\ ~dispatcher.constructed


(***************************************************************************)
(* C6: when verbosity is not enabled, main() never starts the dispatcher:  *)
(* no thread, no RemoteDispatcher, logging left unconfigured, no handler   *)
(* call and no log record; the Proxy is constructed all the same and its   *)
(* relay loop runs in the foreground.                                      *)
(***************************************************************************)
C6_QuietRunHasNoDispatcher ==
    (entry = "main" /\ ~(verbose.t = "int" /\ verbose.n # 0)) =>
        /\ tpc = "none" /\ t_out_address = None
        /\ ~dispatcher.constructed /\ dispatcher.subs = <<>>
        /\ logLevel = "WARNING" /\ logFile = None
        /\ handled = <<>> /\ log = <<>> /\ outq = <<>>
        /\ pc \in {"ready", "relay", "returned"} => proxy.constructed
        /\ relayed # <<>> => pc \in {"relay", "returned"}

C6_Witness ==
    /\ entry = "main" /\ verbose = None
    /\ pc = "relay" /\ proxy.constructed
    /\ Len(relayed) = MaxDocs
    /\ tpc = "none" /\ handled = <<>>

(***************************************************************************)
(* C7: when verbosity is enabled, the dispatcher thread is started after   *)
(* the Proxy has bound both endpoints and before the relay loop is         *)
(* entered; it connects to proxy.out_port, the address actually bound, and *)
(* log_writer is subscribed before the receive loop starts.                *)
(***************************************************************************)
C7_DispatcherStartOrder ==
    /\ entry = "main" =>
          /\ tpc # "none" =>
                /\ proxy.constructed
                /\ proxy.in_port # None /\ proxy.out_port # None
                /\ pc \notin {"parsed", "resolved", "coerced", "constructed"}
                /\ t_out_address = proxy.out_port
          /\ (pc \in {"relay", "returned"} /\ verbose.t = "int" /\ verbose.n # 0) =>
                tpc # "none"
          /\ tpc = "none" => relayed = <<>> \/ verbose = None
          /\ dispatcher.constructed => dispatcher.address = proxy.out_port
    /\ tpc = "running" => dispatcher.subs = <<"log_writer">>
    /\ handled # <<>> => dispatcher.subs = <<"log_writer">>

C7_Witness ==
    /\ entry = "main" /\ pc = "relay" /\ tpc = "running"
    /\ out_address = None
    /\ proxy.out_port \in EphemeralPorts
    /\ dispatcher.address = proxy.out_port
    /\ dispatcher.subs = <<"log_writer">>

(***************************************************************************)
(* C8: an interrupt that arrives while the relay loop runs ends main()     *)
(* normally: the step that leaves the loop prints the exit message, raises *)
(* nothing and neither joins nor touches the dispatcher thread, whether or *)
(* not one was started.                                                    *)
(***************************************************************************)
C8_InterruptIsCleanExit ==
    [][(pc = "relay" /\ pc' # "relay") =>
          /\ pc' = "returned"
          /\ err' = "none" /\ err = "none"
          /\ stdout' = Append(stdout, "Interrupted. Exiting...")
          /\ tpc' = tpc /\ terr' = terr /\ dispatcher' = dispatcher]_vars

C8_Witness ==
    /\ pc = "returned" /\ err = "none"
    /\ stdout[Len(stdout)] = "Interrupted. Exiting..."
    /\ tpc = "running"

\* The log records the verbosity mapping calls for, given the documents dispatched.
RECURSIVE ExpectedLog(_, _)
ExpectedLog(docs, count) ==
    IF docs = <<>> THEN <<>>
    ELSE LET d == Head(docs)
             rest == ExpectedLog(Tail(docs), count)
         IN  IF d.name = "start" \/ d.name = "stop"
             THEN <<[level |-> "INFO", name |-> d.name, doc |-> d]>> \o rest
             ELSE IF count >= 3
             THEN <<[level |-> "DEBUG", name |-> d.name, doc |-> d]>> \o rest
             ELSE rest

(***************************************************************************)
(* C9: with a verbosity count of 1 or 2 a dispatched document produces a   *)
(* log record exactly when it is a start or stop document (at INFO); with  *)
(* a count of 3 or more every dispatched document produces one (start and  *)
(* stop at INFO, the others at DEBUG).                                     *)
(***************************************************************************)
C9_VerbosityMapping ==
    (entry = "main" /\ verbose # None) => log = ExpectedLog(handled, verbose.n)

C9_Witness ==
    /\ entry = "main" /\ verbose = IntV(2)
    /\ Len(handled) = 2 /\ Len(log) = 1
    /\ handled[1].name = "event" /\ handled[2].name = "stop"

RECURSIVE DecodeAll(_)
DecodeAll(frames) ==
    IF frames = <<>> THEN <<>> ELSE <<Decode(Head(frames))>> \o DecodeAll(Tail(frames))

\* s is an initial part of t.
IsPrefix(s, t) == Len(s) <= Len(t) /\ s = SubSeq(t, 1, Len(s))

\* The documents the relay loop forwarded once the dispatcher was connected.
RelayedSinceConnect == DecodeAll(SubSeq(relayed, missed + 1, Len(relayed)))

(***************************************************************************)
(* C10 as stated: every document the Proxy relayed arrives at the          *)
(* dispatcher main() started: once the dispatcher runs and has drained its *)
(* subscription, the documents dispatched are the documents relayed.       *)
(***************************************************************************)
C10_EveryRelayedDocumentArrives ==
    (entry = "main" /\ tpc = "running" /\ outq = <<>>) => handled = DecodeAll(relayed)

(***************************************************************************)
(* C10 amended: the documents relayed are the documents published, in      *)
(* order and unchanged; the documents dispatched to log_writer are, in     *)
(* order and unchanged, the documents relayed after the dispatcher         *)
(* connected (all of them once its subscription is drained), and none is   *)
(* dispatched before it was relayed; a document relayed before the         *)
(* dispatcher connected never reaches it.                                  *)
(***************************************************************************)
C10_RelayedAfterConnectArrive ==
    entry = "main" =>
        /\ IsPrefix(DecodeAll(relayed), sent)
        /\ missed <= Len(relayed)
        /\ IsPrefix(handled, RelayedSinceConnect)
        /\ Len(handled) + Len(outq) = Len(RelayedSinceConnect)
        /\ DecodeAll(outq) = SubSeq(RelayedSinceConnect, Len(handled) + 1,
                                    Len(RelayedSinceConnect))
        /\ (tpc = "running" /\ outq = <<>>) => handled = RelayedSinceConnect

C10_Witness ==
    /\ entry = "main" /\ tpc = "running"
    /\ Len(relayed) = 2 /\ missed = 1
    /\ handled = <<sent[2]>>

=============================================================================
